---------------------------- MODULE Spec2Model ----------------------------
(***************************************************************************)
(* The LangGraph agent of src/agents_intro/3_langgraph_agent.py: a domain  *)
(* router evaluated from START, the refusal node, and the llm/tools loop   *)
(* bounded by the step budget.                                             *)
(*                                                                         *)
(* The chat model (the oracle) and the tool bodies are external: every     *)
(* completion, every router reply and every tool outcome (returns/raises)  *)
(* is a nondeterministic input of the action that consumes it.             *)
(*                                                                         *)
(* Further specifications on the same state: RouterSpec enters the graph   *)
(* on any log, PairSpec interleaves the node executions of two runs, and   *)
(* Demo1Spec is one pass of the manual tool-calling loop of                *)
(* src/agents_intro/1_langchain_tool_calling.py.                           *)
(***************************************************************************)
EXTENDS Integers, Sequences, FiniteSets, TLC

VARIABLES
    messages,        \* AgentState["messages"]: the message log
    steps,           \* AgentState["steps"]
    pc,              \* the graph position: the node that runs next
    max_steps,       \* the step budget read by route_after_llm
    response,        \* the local `response` of route_domain_llm and of node_llm:
                     \* what the chat model returned last
    visited,         \* history: the nodes executed so far, in order
    invoked,         \* history: tool_call ids handed to tool_fn.invoke, in order
    prompt,          \* the message list handed to the chat model by the last
                     \* call: router_messages in route_domain_llm, the local
                     \* `messages` in node_llm
    parked,          \* the state of the run that is not executing when two
                     \* runs of the compiled graph are interleaved
    query,           \* demo 1: the loop variable of `for query in test_user_queries`
    demo1_messages,  \* demo 1: the list `messages` of the current query
    ai_message,      \* demo 1: the first completion
    final_message,   \* demo 1: the message printed as the answer
    line,            \* demo 1: the statement of the script that runs next
    called           \* demo 1 history: the tool calls handed to tool_fn.invoke

\* The state one run of the graph owns: its AgentState, its position, the
\* locals of the node it is in, and its history.
run_vars == <<messages, steps, pc, response, visited, invoked, prompt>>

\* The state of the agent of demo 3.
agent_vars == <<run_vars, max_steps, parked>>

\* The state of the script of demo 1 (1_langchain_tool_calling.py).
script_vars == <<query, demo1_messages, ai_message, final_message, line, called>>

\* What a node of the agent cannot reach: the state of the other run and the
\* script of demo 1.
elsewhere == <<parked, script_vars>>

vars == <<agent_vars, script_vars>>

-----------------------------------------------------------------------------
(* Configuration and bounds *)

\* MAX_STEPS = 6
MAX_STEPS == 6

\* The largest number of tool calls the oracle puts in one completion.
MaxCalls == 2

\* The budgets a run is configured with: every value up to the shipped one.
Budgets == 1..MAX_STEPS

\* No run of the program takes more than max_steps + 1 steps; the cap only
\* stops a model whose routing never ends.
StepCap == MAX_STEPS + 2

\* TOOLS_BY_NAME = {t.name: t for t in TOOLS}
TOOLS_BY_NAME == {"wikipedia_search", "nlp_concept_kb_lookup"}

\* The names the oracle asks for: a registered tool and an unregistered one.
RequestedNames == {"nlp_concept_kb_lookup", "ghost"}

\* The user's question (test_user_queries).
UserQueries == {"Define self-attention and give the key paper + year."}

-----------------------------------------------------------------------------
(* Messages *)

HumanMessage(text) ==
    [type |-> "human", content |-> text, tool_calls |-> <<>>,
     name |-> "", tool_call_id |-> 0]

AIMessage(text, calls) ==
    [type |-> "ai", content |-> text, tool_calls |-> calls,
     name |-> "", tool_call_id |-> 0]

ToolMessage(text, tool_name, id) ==
    [type |-> "tool", content |-> text, tool_calls |-> <<>>,
     name |-> tool_name, tool_call_id |-> id]

SystemMessage(text) ==
    [type |-> "system", content |-> text, tool_calls |-> <<>>,
     name |-> "", tool_call_id |-> 0]

\* No call of the chat model has returned yet (an empty reply is a reply).
NoResponse ==
    [type |-> "none", content |-> "", tool_calls |-> <<>>,
     name |-> "", tool_call_id |-> 0]

\* The refusal built by node_out_of_domain.
OutOfDomainMessage ==
    SystemMessage("The question is out of scope. I can help with NLP concepts")

\* SYSTEM_MESSAGE, the fixed preamble of the Decision Step.
SYSTEM_MESSAGE == SystemMessage("You are a helpful assistant.")

\* ROUTER_SYSTEM_MESSAGE
ROUTER_SYSTEM_MESSAGE == SystemMessage("You are a router for an NLP-only assistant.")

\* A messages channel without its reducer: the update replaces the log.
add_messages_overwrite(left, right) == right

\* The add_messages reducer on messages that all carry fresh ids: the update
\* is appended to the log.
add_messages(left, right) == left \o right

Last(seq) == seq[Len(seq)]

RECURSIVE CountCalls(_)
\* The number of tool calls requested in a log so far.
CountCalls(msgs) ==
    IF msgs = <<>> THEN 0
    ELSE Len(Last(msgs).tool_calls) + CountCalls(SubSeq(msgs, 1, Len(msgs) - 1))

RECURSIVE Count(_, _)
\* How many times node n occurs in a history of executed nodes.
Count(n, hist) ==
    IF hist = <<>> THEN 0
    ELSE (IF Last(hist) = n THEN 1 ELSE 0) + Count(n, SubSeq(hist, 1, Len(hist) - 1))

-----------------------------------------------------------------------------
(* The domain router: route_domain_llm *)

RECURSIVE user_text_first(_)
\* The scan of route_domain_llm run from the start of the log: the content of
\* the first HumanMessage.
user_text_first(msgs) ==
    IF msgs = <<>> THEN ""
    ELSE IF Head(msgs).type = "human" THEN Head(msgs).content
    ELSE user_text_first(Tail(msgs))

RECURSIVE user_text(_)
\* user_text = ""; for msg in reversed(state["messages"]): the content of the
\* first HumanMessage met, and "" when the loop ends without one.
user_text(msgs) ==
    IF msgs = <<>> THEN ""
    ELSE IF Last(msgs).type = "human" THEN Last(msgs).content
    ELSE user_text(SubSeq(msgs, 1, Len(msgs) - 1))

\* router_messages = [ROUTER_SYSTEM_MESSAGE, HumanMessage(content=user_text)]
router_messages(msgs) == <<ROUTER_SYSTEM_MESSAGE, HumanMessage(user_text(msgs))>>

\* Contents the chat model returns to the router prompt.
RouterReplies ==
    { "{\"route\":\"in_domain\"}",
      "{\"route\":\"out_of_domain\"}",
      " {\"route\":\"out_of_domain\"}\n",
      "{\"route\":\"OUT_OF_DOMAIN\"}",
      "{}",
      "[\"out_of_domain\"]",
      "\"out_of_domain\"",
      "null",
      "out_of_domain",
      "" }

\* str.strip() on the replies above.
strip(text) ==
    IF text = " {\"route\":\"out_of_domain\"}\n"
    THEN "{\"route\":\"out_of_domain\"}"
    ELSE text

Absent == "<absent>"

JSONDecodeError == [raised |-> TRUE, kind |-> "none", route |-> Absent]

JsonValue(k, r) == [raised |-> FALSE, kind |-> k, route |-> r]

\* json.loads on the stripped replies: the Python value it builds (its type,
\* and for a dict the value under "route"), or JSONDecodeError.
json_loads(text) ==
    CASE text = "{\"route\":\"in_domain\"}"     -> JsonValue("dict", "in_domain")
      [] text = "{\"route\":\"out_of_domain\"}" -> JsonValue("dict", "out_of_domain")
      [] text = "{\"route\":\"OUT_OF_DOMAIN\"}" -> JsonValue("dict", "OUT_OF_DOMAIN")
      [] text = "{}"                            -> JsonValue("dict", Absent)
      [] text = "[\"out_of_domain\"]"           -> JsonValue("list", Absent)
      [] text = "\"out_of_domain\""             -> JsonValue("str", Absent)
      [] text = "null"                          -> JsonValue("NoneType", Absent)
      [] OTHER                                  -> JSONDecodeError

\* The try block of route_domain_llm, failing closed: what a router that
\* refuses on any reply it cannot read would return.
route_of_reply_fail_closed(content) ==
    LET payload == json_loads(strip(content))
    IN  IF payload.raised THEN "out_of_domain"
        ELSE IF payload.kind # "dict" THEN "out_of_domain"
        ELSE IF payload.route = "in_domain" THEN "in_domain"
        ELSE "out_of_domain"

\* The try block of route_domain_llm and the return after it: json.loads of
\* the stripped content; payload.get exists on a dict only (AttributeError
\* otherwise), and every exception is caught and answered "in_domain".
route_of_reply(content) ==
    LET payload == json_loads(strip(content))
    IN  IF payload.raised THEN "in_domain"
        ELSE IF payload.kind # "dict" THEN "in_domain"
        ELSE IF payload.route = "out_of_domain" THEN "out_of_domain"
        ELSE "in_domain"

\* The conditional edge from START with both routes mapped to the loop.
DomainEdgeAlwaysLlm(route) == "llm"

\* The conditional edge from START: {"in_domain": "llm", "out_of_domain": "out_of_domain"}.
DomainEdge(route) == IF route = "in_domain" THEN "llm" ELSE "out_of_domain"

\* llm.invoke of the router inside the try block: a raising call is answered
\* "in_domain" like a reply that cannot be read.
router_raises_fail_open ==
    /\ response' = response
    /\ pc' = DomainEdge("in_domain")

\* llm.invoke(router_messages) raises: the call stands before the try block,
\* so the exception leaves route_domain_llm and the run.
router_raises ==
    /\ response' = response
    /\ pc' = "ERROR"

\* route_domain_llm up to llm.invoke: the oracle answers the router prompt, or
\* the call raises and the run is over.
route_domain_llm_invoke ==
    /\ pc = "START"
    /\ \/ /\ \E reply \in RouterReplies : response' = AIMessage(reply, <<>>)
          /\ pc' = "route_domain_llm"
       \/ router_raises
    /\ prompt' = router_messages(messages)
    /\ UNCHANGED <<messages, steps, max_steps, visited, invoked>>
    /\ UNCHANGED elsewhere

\* route_domain_llm charging the step budget for the classification.
route_domain_llm_return_counted ==
    /\ pc = "route_domain_llm"
    /\ pc' = DomainEdge(route_of_reply(response.content))
    /\ steps' = steps + 1
    /\ UNCHANGED <<messages, max_steps, response, visited, invoked, prompt>>
    /\ UNCHANGED elsewhere

\* route_domain_llm from the reply to its return, and the edge taken on it.
route_domain_llm_return ==
    /\ pc = "route_domain_llm"
    /\ pc' = DomainEdge(route_of_reply(response.content))
    /\ UNCHANGED <<messages, steps, max_steps, response, visited, invoked, prompt>>
    /\ UNCHANGED elsewhere

\* The steps value node_out_of_domain returns: state["steps"] + 1.
out_of_domain_steps(n) == n + 1

\* node_out_of_domain, then the edge out_of_domain -> END.
node_out_of_domain ==
    /\ pc = "out_of_domain"
    /\ messages' = add_messages(messages, <<OutOfDomainMessage>>)
    /\ steps' = out_of_domain_steps(steps)
    /\ visited' = Append(visited, "out_of_domain")
    /\ pc' = "END"
    /\ UNCHANGED <<max_steps, response, invoked, prompt>>
    /\ UNCHANGED elsewhere

-----------------------------------------------------------------------------
(* The llm node and the edge after it *)

\* The tool-call lists of one completion, by the names requested.
CallNames == UNION { [1..n -> RequestedNames] : n \in 0..MaxCalls }

\* The tool calls of a completion: the chat model gives each call an id of its
\* own (a fresh uuid), here the next unused numbers.
ToolCalls(names, used) ==
    [i \in 1..Len(names) |-> [id |-> used + i, name |-> names[i]]]

\* The text of the n-th completion of a run.
CompletionText(n) == "completion " \o ToString(n)

\* route_after_llm without the budget test: only an empty tool_calls ends the loop.
route_after_llm_no_budget(state) ==
    IF Last(state.messages).tool_calls = <<>> THEN "end" ELSE "continue"

\* route_after_llm with the two tests joined the other way round.
route_after_llm_both(state) ==
    IF state.steps >= max_steps /\ Last(state.messages).tool_calls = <<>>
    THEN "end"
    ELSE "continue"

\* route_after_llm with the budget test off by one (> for >=).
route_after_llm_strict(state) ==
    IF state.steps > max_steps THEN "end"
    ELSE IF Last(state.messages).tool_calls = <<>> THEN "end"
    ELSE "continue"

\* route_after_llm without the tool_calls test: only the budget ends the loop.
route_after_llm_budget_only(state) ==
    IF state.steps >= max_steps THEN "end" ELSE "continue"

\* route_after_llm: "end" when the step budget is used up or the last message
\* has no tool calls, "continue" otherwise.
route_after_llm(state) ==
    IF state.steps >= max_steps THEN "end"
    ELSE IF Last(state.messages).tool_calls = <<>> THEN "end"
    ELSE "continue"

\* The conditional edge from llm: {"continue": "tools", "end": END}.
LlmEdge(decision) == IF decision = "continue" THEN "tools" ELSE "END"

\* The oracle called on the log alone.
llm_input_bare(msgs) == msgs

\* messages = [SYSTEM_MESSAGE] + list(state["messages"]): the preamble is put
\* before the log for the call and is not part of the update.
llm_input(msgs) == <<SYSTEM_MESSAGE>> \o msgs

\* node_llm calling the oracle again after a failed call.
llm_raises_retry ==
    /\ pc' = "llm"
    /\ UNCHANGED <<messages, steps, response>>

\* llm_with_tools.invoke raises: node_llm has no handler, so it returns no
\* update and the exception ends the run.
llm_raises ==
    /\ pc' = "ERROR"
    /\ UNCHANGED <<messages, steps, response>>

\* node_llm, then the edge chosen by route_after_llm on the updated state. The
\* oracle returns a completion with zero or more tool calls, or the call raises
\* and no update is made.
node_llm ==
    /\ pc = "llm"
    /\ steps < StepCap
    /\ visited' = Append(visited, "llm")
    /\ prompt' = llm_input(messages)
    /\ \/ \E names \in CallNames :
            LET completion == AIMessage(CompletionText(Count("llm", visited) + 1),
                                        ToolCalls(names, CountCalls(messages)))
                update == [messages |-> add_messages(messages, <<completion>>),
                           steps |-> steps + 1]
            IN  /\ response' = completion
                /\ messages' = update.messages
                /\ steps' = update.steps
                /\ pc' = LlmEdge(route_after_llm(update))
       \/ llm_raises
    /\ UNCHANGED <<max_steps, invoked>>
    /\ UNCHANGED elsewhere

-----------------------------------------------------------------------------
(* The tools node *)

\* str(result) of a tool that returned.
ToolResultText(tool_name) == "result of " \o tool_name

\* The message node_tools builds for one tool call whose tool, if any, returned.
ToolMessageFor(tool_call) ==
    IF tool_call.name \notin TOOLS_BY_NAME
    THEN ToolMessage("Unknown tool: " \o tool_call.name, tool_call.name, tool_call.id)
    ELSE ToolMessage(ToolResultText(tool_call.name), tool_call.name, tool_call.id)

\* The lookup in TOOLS_BY_NAME without the `is None` test.
IsRegisteredAny(tool_call) == TRUE

\* tool_fn = TOOLS_BY_NAME.get(tool_name); tool_fn is not None
IsRegistered(tool_call) == tool_call.name \in TOOLS_BY_NAME

\* The loop of node_tools leaving it at the first unknown tool (break for continue).
tool_messages_break(calls) ==
    LET unknown == { i \in 1..Len(calls) : ~IsRegistered(calls[i]) }
        n == IF unknown = {} THEN Len(calls)
             ELSE CHOOSE i \in unknown : \A j \in unknown : i <= j
    IN  [i \in 1..n |-> ToolMessageFor(calls[i])]

\* The loop of node_tools passing over an unknown tool without a message.
tool_messages_known_only(calls) ==
    LET known == SelectSeq(calls, IsRegistered)
    IN  [i \in 1..Len(known) |-> ToolMessageFor(known[i])]

\* The loop of node_tools when every tool returns: one ToolMessage per tool
\* call, in the order of last_message.tool_calls.
tool_messages(calls) ==
    [i \in 1..Len(calls) |-> ToolMessageFor(calls[i])]

\* node_tools leaving steps as it found it.
tools_steps_uncounted(n, calls) == n

\* node_tools counting one step per tool call.
tools_steps_per_call(n, calls) == n + Len(calls)

\* "steps": state["steps"] + 1 in node_tools' return, whatever the calls.
tools_steps(n, calls) == n + 1

\* The ids of the calls among the first k that reach tool_fn.invoke.
InvokedIds(calls, k) ==
    LET reg == SelectSeq(SubSeq(calls, 1, k), IsRegistered)
    IN  [i \in 1..Len(reg) |-> reg[i].id]

\* The tools node wired to END.
ToolsEdgeEnd == "END"

\* The budget tested on the edge out of tools: the run ends on the batch that
\* uses the budget up.
ToolsEdgeBudget == IF steps + 1 >= max_steps THEN "END" ELSE "llm"

\* graph.add_edge("tools", "llm")
ToolsEdge == "llm"

\* tool_fn.invoke of the k-th call raises, caught and reported as data: the
\* batch is answered up to k and the loop goes on.
tool_raises_reported(calls, k) ==
    /\ IsRegistered(calls[k])
    /\ invoked' = invoked \o InvokedIds(calls, k)
    /\ messages' = add_messages(messages,
                      [i \in 1..k |-> IF i = k
                                      THEN ToolMessage("error", calls[i].name, calls[i].id)
                                      ELSE ToolMessageFor(calls[i])])
    /\ steps' = steps + 1
    /\ pc' = ToolsEdge

\* tool_fn.invoke of the k-th call raises with the observations written to the
\* state as they are made: those of the calls before k stay in the log.
tool_raises_partial(calls, k) ==
    /\ IsRegistered(calls[k])
    /\ invoked' = invoked \o InvokedIds(calls, k)
    /\ messages' = add_messages(messages, [i \in 1..(k - 1) |-> ToolMessageFor(calls[i])])
    /\ pc' = "ERROR"
    /\ UNCHANGED steps

\* A batch checked call by call before its first tool runs: the k-th call
\* raises with none of the tools before it invoked.
tool_raises_before_batch(calls, k) ==
    /\ IsRegistered(calls[k])
    /\ invoked' = Append(invoked, calls[k].id)
    /\ pc' = "ERROR"
    /\ UNCHANGED <<messages, steps>>

\* tool_fn.invoke(tool_args) of the k-th call raises: the calls before k have
\* been handled, tool_messages is a local that is dropped with the frame, and
\* node_tools returns no update.
tool_raises(calls, k) ==
    /\ IsRegistered(calls[k])
    /\ invoked' = invoked \o InvokedIds(calls, k)
    /\ pc' = "ERROR"
    /\ UNCHANGED <<messages, steps>>

\* node_tools, then the edge tools -> llm. Either every invoked tool returns,
\* or the tool of the k-th call raises: the exception leaves node_tools before
\* its return, so no update is made.
node_tools ==
    /\ pc = "tools"
    /\ steps < StepCap
    /\ visited' = Append(visited, "tools")
    /\ LET calls == Last(messages).tool_calls
       IN  \/ /\ messages' = add_messages(messages, tool_messages(calls))
              /\ steps' = tools_steps(steps, calls)
              /\ invoked' = invoked \o InvokedIds(calls, Len(calls))
              /\ pc' = ToolsEdge
           \/ \E k \in 1..Len(calls) : tool_raises(calls, k)
    /\ UNCHANGED <<max_steps, response, prompt>>
    /\ UNCHANGED elsewhere

-----------------------------------------------------------------------------
(* The run *)

\* No second run of the graph is under way.
NoRun == [id |-> 0]

\* The script of demo 1 is not the program that runs.
ScriptNotRun ==
    /\ query = 0
    /\ demo1_messages = <<>>
    /\ ai_message = NoResponse
    /\ final_message = NoResponse
    /\ line = "not run"
    /\ called = <<>>

\* The state agent.invoke starts a run in:
\* {"messages": [HumanMessage(content=user_query)], "steps": 0}
RunInit ==
    /\ \E q \in UserQueries : messages = <<HumanMessage(q)>>
    /\ steps = 0
    /\ pc = "START"
    /\ response = NoResponse
    /\ visited = <<>>
    /\ invoked = <<>>
    /\ prompt = <<>>

\* One run of the agent: agent.invoke on a fresh state.
Init ==
    /\ RunInit
    /\ max_steps \in Budgets
    /\ parked = NoRun
    /\ ScriptNotRun

Next ==
    \/ route_domain_llm_invoke
    \/ route_domain_llm_return
    \/ node_out_of_domain
    \/ node_llm
    \/ node_tools

Spec == Init /\ [][Next]_vars

\* The graph runtime runs the node that is due: a run never parks between nodes.
FairSpec == Spec /\ WF_vars(Next)

\* The states of the loop controller, read off the graph position.
ROUTING == pc \in {"START", "route_domain_llm", "out_of_domain"}
DECIDING == pc = "llm"
ACTING == pc = "tools"
DONE == pc = "END" /\ visited # <<>> /\ Last(visited) = "llm"
REJECTED == pc = "END" /\ visited # <<>> /\ Last(visited) = "out_of_domain"
FAILED == pc = "ERROR"

TypeOK ==
    /\ pc \in {"llm", "tools"} => steps < StepCap
    /\ pc \in {"START", "route_domain_llm", "out_of_domain", "llm", "tools", "END", "ERROR"}
    /\ steps \in 0..StepCap
    /\ max_steps \in Budgets
    /\ response.type \in {"ai", "none"}
    /\ Len(messages) >= 1

-----------------------------------------------------------------------------
(* Properties *)

\* A step in which node_llm ran to its return (the Decision Step executed).
DecisionStepRan == pc = "llm" /\ pc' \in {"tools", "END"}

\* A step in which node_tools ran to its return (the Action Executor executed).
ExecutorRan == pc = "tools" /\ pc' = "llm"

\* A step in which node_out_of_domain ran.
RefusalRan == pc = "out_of_domain" /\ pc' = "END"

\* The assistant messages of the log.
AIPositions == { i \in 1..Len(messages) : messages[i].type = "ai" }

\* The oracle asked for at least one action in every completion of the run.
OracleNeverStops == \A i \in AIPositions : messages[i].tool_calls # <<>>

\* C1: under fair scheduling of the graph, every run in which no collaborator
\* raises reaches DONE or REJECTED, whatever the budget (>= 1) and whatever
\* the oracle answers, an oracle that always requests actions included.
C1_Terminates == ([](pc # "ERROR")) => <>(DONE \/ REJECTED)

\* C1 witness: a finished run of the shipped budget in which every completion
\* requested actions.
C1_Witness ==
    /\ DONE
    /\ max_steps = MAX_STEPS
    /\ OracleNeverStops
    /\ Count("llm", visited) >= 2

\* C2 (as claimed): in DONE and in REJECTED, steps <= max_steps.
C2_TerminalWithinBudget == (DONE \/ REJECTED) => steps <= max_steps

\* C3 (as claimed): steps grows by 1 on each Decision Step and each Action
\* Executor execution and is left alone by every other transition.
C3_OnlyLoopNodesCount ==
    [][IF DecisionStepRan \/ ExecutorRan THEN steps' = steps + 1
       ELSE steps' = steps]_vars

\* C3 (amended): steps grows by exactly 1 on each Decision Step, each Action
\* Executor execution (whatever the number of requested actions) and on the
\* refusal node; every other transition leaves it alone, so it never decreases.
C3_EveryNodeCountsOne ==
    [][IF DecisionStepRan \/ ExecutorRan \/ RefusalRan THEN steps' = steps + 1
       ELSE steps' = steps]_vars

\* C3 witness: the executor has run once on a message with two requests and
\* the count stands at 2.
C3_Witness ==
    /\ visited = <<"llm", "tools">>
    /\ pc = "llm"
    /\ Len(messages[2].tool_calls) >= 2
    /\ steps = 2

\* C4 (as claimed): with max_steps = 2 and an oracle that always requests an
\* action, the run ends with steps = 2, the second completion as its answer,
\* and the executor run once only (never for the second completion).
C4_ScenarioD ==
    (DONE /\ max_steps = 2 /\ OracleNeverStops)
        => /\ steps = 2
           /\ Last(messages).content = CompletionText(2)
           /\ Count("tools", visited) = 1

\* C5: one execution of the executor on a message with N requests whose tools
\* all return appends exactly N observations after the unchanged log, the i-th
\* answering the i-th request (its id and name), an unknown name with the
\* unknown-tool text, and no id answered twice.
C5_OneObservationPerRequest ==
    [][ExecutorRan =>
        LET calls == Last(messages).tool_calls
            n == Len(messages)
        IN  /\ Len(messages') = n + Len(calls)
            /\ SubSeq(messages', 1, n) = messages
            /\ \A i \in 1..Len(calls) :
                 /\ messages'[n + i].type = "tool"
                 /\ messages'[n + i].tool_call_id = calls[i].id
                 /\ messages'[n + i].name = calls[i].name
                 /\ calls[i].name \notin TOOLS_BY_NAME
                      => messages'[n + i].content = "Unknown tool: " \o calls[i].name
            /\ \A i, j \in 1..Len(calls) :
                 messages'[n + i].tool_call_id = messages'[n + j].tool_call_id => i = j
       ]_vars

\* C5 witness: the executor has answered a message whose first request names
\* an unknown tool and whose second names a registered one.
C5_Witness ==
    /\ visited = <<"llm", "tools">>
    /\ Len(messages) = 4
    /\ messages[2].tool_calls[1].name = "ghost"
    /\ messages[2].tool_calls[2].name = "nlp_concept_kb_lookup"
    /\ messages[4].tool_call_id = messages[2].tool_calls[2].id

\* The router reply is a well-formed payload whose route is out_of_domain.
WellFormedOutOfDomain(reply) ==
    reply \in {"{\"route\":\"out_of_domain\"}", " {\"route\":\"out_of_domain\"}\n"}

\* C6: a run whose router classifies the text out_of_domain ends in REJECTED;
\* in REJECTED the log is the user's message followed by the one refusal, and
\* neither the Decision Step nor the Action Executor (nor any tool) has run.
C6_OutOfDomainRejected ==
    /\ [](REJECTED =>
            /\ Len(messages) = 2
            /\ messages[1].type = "human"
            /\ messages[2] = OutOfDomainMessage
            /\ Count("llm", visited) = 0
            /\ Count("tools", visited) = 0
            /\ invoked = <<>>)
    /\ (pc = "route_domain_llm" /\ WellFormedOutOfDomain(response.content)) ~> REJECTED

\* C6 witness: a run rejected on an out_of_domain payload.
C6_Witness == REJECTED /\ response.content = "{\"route\":\"out_of_domain\"}"

\* C7 (as claimed): both outcomes of the router stage leave steps at 0.
C7_RouterStageFree ==
    ((pc = "llm" /\ visited = <<>>) \/ REJECTED) => steps = 0

\* C7 (amended): classification does not change steps (it is 0 when the
\* Decision Step or the refusal node is entered), and the refusal node counts
\* one step: steps = 1 in REJECTED.
C7_OnlyRefusalCounts ==
    /\ (pc \in {"route_domain_llm", "llm", "out_of_domain"} /\ visited = <<>>) => steps = 0
    /\ REJECTED => steps = 1

\* C7 witness: the out_of_domain outcome, after the refusal node has run.
C7_Witness == REJECTED /\ steps = 1 /\ response.content = " {\"route\":\"out_of_domain\"}\n"

\* C8: on every reply that is not a well-formed out_of_domain payload the
\* router returns in_domain: the edge leads to the Decision Step, not to the
\* refusal node.
C8_FailOpen ==
    [][(pc = "route_domain_llm" /\ ~WellFormedOutOfDomain(response.content))
          => pc' = "llm"]_vars

\* C8 witness: the Decision Step is the node to run after a reply that is
\* valid JSON but no object.
C8_Witness == pc = "llm" /\ visited = <<>> /\ response.content = "[\"out_of_domain\"]"

\* C9: after a Decision Step the run is over iff the new message requests no
\* action or steps has reached max_steps; otherwise the executor is next.
C9_RouteAfterDecision ==
    [][DecisionStepRan =>
        /\ pc' = "END" <=> (Last(messages').tool_calls = <<>> \/ steps' >= max_steps)
        /\ pc' = "tools" <=> (Last(messages').tool_calls # <<>> /\ steps' < max_steps)
       ]_vars

\* C9 witness: a second Decision Step sent the run on to the executor.
C9_Witness == pc = "tools" /\ visited = <<"llm", "tools", "llm">> /\ steps < max_steps

\* The run is over on a message that still requests actions.
BudgetExhausted == DONE /\ Last(messages).tool_calls # <<>>

\* C10: a Decision Step that leaves steps >= max_steps with requests in its
\* message ends the run in DONE; there the last message is that completion,
\* none of its requests has been invoked or has an observation, and no step
\* leaves the terminal state.
C10_BudgetExhaustion ==
    /\ [](BudgetExhausted =>
            /\ steps >= max_steps
            /\ Last(messages).type = "ai"
            /\ Last(messages).content = CompletionText(Count("llm", visited))
            /\ \A c \in 1..Len(Last(messages).tool_calls) :
                 LET id == Last(messages).tool_calls[c].id
                 IN  /\ \A k \in 1..Len(invoked) : invoked[k] # id
                     /\ \A m \in 1..Len(messages) :
                          messages[m].type = "tool" => messages[m].tool_call_id # id)
    /\ [][/\ (DecisionStepRan /\ steps' >= max_steps /\ Last(messages').tool_calls # <<>>)
               => pc' = "END"
          /\ pc # "END"]_vars

\* C10 witness: a run cut by the budget after two executor rounds.
C10_Witness == BudgetExhausted /\ Count("tools", visited) = 2

\* The call ids requested by message i of the log.
RequestIds(i) == { messages[i].tool_calls[c].id : c \in 1..Len(messages[i].tool_calls) }

\* The positions of the observations that answer call id.
ObservationsOf(id) ==
    { m \in 1..Len(messages) : messages[m].type = "tool" /\ messages[m].tool_call_id = id }

\* C11: when the first Decision Step of an in_domain run returns a message
\* with no requested action the run ends there: DONE after one Decision Step
\* and no executor round, the log's last message (the answer) being that
\* completion, and no step leaves DONE.
C11_ScenarioB ==
    /\ []((DONE /\ messages[2].tool_calls = <<>>) =>
            /\ visited = <<"llm">>
            /\ invoked = <<>>
            /\ Len(messages) = 2
            /\ Last(messages).type = "ai"
            /\ Last(messages).content = CompletionText(1))
    /\ [][/\ (pc = "llm" /\ visited = <<>> /\ DecisionStepRan
                /\ Last(messages').tool_calls = <<>>) => pc' = "END"
          /\ pc # "END"]_vars

\* C11 witness: an in_domain run answered by its first completion.
C11_Witness ==
    /\ DONE
    /\ visited = <<"llm">>
    /\ Last(messages).tool_calls = <<>>
    /\ max_steps = MAX_STEPS

\* C12: whenever a Decision Step is due, every request in the log has exactly
\* one observation, placed after the message that made it; in every state the
\* requests without an observation are those of the last message only.
C12_NoDanglingRequest ==
    /\ pc = "llm" =>
         \A i \in AIPositions : \A id \in RequestIds(i) :
            /\ Cardinality(ObservationsOf(id)) = 1
            /\ \A m \in ObservationsOf(id) : m > i
    /\ \A i \in AIPositions : \A id \in RequestIds(i) :
         ObservationsOf(id) = {} => i = Len(messages)

\* C12 witness: the third Decision Step is due after two batches, the first
\* with a registered and an unknown tool.
C12_Witness ==
    /\ pc = "llm"
    /\ visited = <<"llm", "tools", "llm", "tools">>
    /\ Len(messages[2].tool_calls) = 2
    /\ messages[2].tool_calls[1].name = "nlp_concept_kb_lookup"
    /\ messages[2].tool_calls[2].name = "ghost"

\* C13: for a request naming an unknown tool the executor invokes nothing and
\* appends an observation with the unknown-tool text and the request's id;
\* the executor aborts only on a registered tool, so a batch of unknown names
\* always leads to the next Decision Step.
C13_UnknownToolRecoverable ==
    [][pc = "tools" =>
        LET calls == Last(messages).tool_calls
            n == Len(messages)
            unknown == { i \in 1..Len(calls) : calls[i].name \notin TOOLS_BY_NAME }
        IN  /\ \A i \in unknown : \A k \in 1..Len(invoked') : invoked'[k] # calls[i].id
            /\ pc' = "llm" =>
                 \A i \in unknown :
                    /\ messages'[n + i].type = "tool"
                    /\ messages'[n + i].content = "Unknown tool: " \o calls[i].name
                    /\ messages'[n + i].tool_call_id = calls[i].id
            /\ unknown = 1..Len(calls) => pc' = "llm"
            /\ pc' \in {"llm", "ERROR"}
       ]_vars

\* C13 witness: a Decision Step has run after a batch that held an unknown tool.
C13_Witness ==
    /\ visited = <<"llm", "tools", "llm">>
    /\ messages[2].tool_calls[1].name = "ghost"
    /\ messages[3].content = "Unknown tool: ghost"
    /\ invoked = <<>>

\* The run was aborted by node n raising.
AbortedIn(n) == pc = "ERROR" /\ visited # <<>> /\ Last(visited) = n

\* C14: a registered tool that raises aborts the run. The step that raises
\* changes neither the log nor steps; in the aborted state (neither DONE nor
\* REJECTED) the failing request, the last one invoked, has no observation,
\* no id was invoked twice, every completion in the log comes from a Decision
\* Step made before, and no step leaves the state. The log never holds an
\* error observation for a registered tool: a batch is answered with results
\* and unknown-tool texts only.
C14_ToolFailureAborts ==
    /\ [](AbortedIn("tools") =>
            /\ ~DONE /\ ~REJECTED
            /\ Last(messages).type = "ai"
            /\ invoked # <<>>
            /\ Last(invoked) \in RequestIds(Len(messages))
            /\ \A id \in RequestIds(Len(messages)) : ObservationsOf(id) = {}
            /\ \A j, k \in 1..Len(invoked) : invoked[j] = invoked[k] => j = k
            /\ Count("llm", visited) = Cardinality(AIPositions))
    /\ [](\A m \in 1..Len(messages) :
            (messages[m].type = "tool" /\ messages[m].name \in TOOLS_BY_NAME)
               => messages[m].content = ToolResultText(messages[m].name))
    /\ [][/\ (pc = "tools" /\ pc' # "llm")
               => (pc' = "ERROR" /\ messages' = messages /\ steps' = steps)
          /\ pc # "ERROR"]_vars

\* C14 witness: the second tool of a batch of two registered tools raised.
C14_Witness ==
    /\ AbortedIn("tools")
    /\ Len(Last(messages).tool_calls) = 2
    /\ Len(invoked) = 2

\* C15: a Decision Step either returns (one message more, one step more) or
\* its oracle call raises and the run is aborted with the log and steps as
\* they were; the oracle is called once per completion in the log, plus the
\* one call that raised, and no step leaves the aborted state.
C15_OracleFailureFatal ==
    /\ [](Count("llm", visited) =
            Cardinality(AIPositions) + (IF AbortedIn("llm") THEN 1 ELSE 0))
    /\ [](AbortedIn("llm") => ~DONE)
    /\ [][/\ pc = "llm" =>
               \/ /\ DecisionStepRan
                  /\ Len(messages') = Len(messages) + 1
                  /\ steps' = steps + 1
               \/ /\ pc' = "ERROR"
                  /\ messages' = messages
                  /\ steps' = steps
          /\ pc # "ERROR"]_vars

\* C15 witness: the oracle raised in the second Decision Step.
C15_Witness ==
    /\ AbortedIn("llm")
    /\ visited = <<"llm", "tools", "llm">>
    /\ Len(messages) >= 3
    /\ steps = 2

\* C16: a router call that raises aborts the run: from START the run goes on
\* to the classification of a returned reply or to the aborted state, where
\* the log is still the user's message, steps is 0, and no node has run; the
\* Decision Step and the refusal node are entered only on a returned reply.
C16_RouterFailureFatal ==
    /\ []((pc = "ERROR" /\ visited = <<>>) =>
            /\ response = NoResponse
            /\ Len(messages) = 1
            /\ messages[1].type = "human"
            /\ steps = 0
            /\ invoked = <<>>)
    /\ []((pc \in {"llm", "out_of_domain"} /\ visited = <<>>) => response # NoResponse)
    /\ [][/\ pc = "START" =>
               \/ pc' = "route_domain_llm" /\ response' # NoResponse
               \/ pc' = "ERROR" /\ response' = response /\ messages' = messages
          /\ pc # "ERROR"]_vars

\* C16 witness: the run was aborted by the router's oracle call.
C16_Witness == pc = "ERROR" /\ visited = <<>> /\ response = NoResponse

\* The requests of message i that have an observation in the log.
Answered(i) == { id \in RequestIds(i) : ObservationsOf(id) # {} }

\* C17: in every state, aborted ones included, each assistant message has
\* observations for all of its requests or for none.
C17_BatchAtomic ==
    \A i \in AIPositions : Answered(i) = {} \/ Answered(i) = RequestIds(i)

\* C17 witness: a run aborted by the second tool of its second batch, the
\* first batch answered in full.
C17_Witness ==
    /\ AbortedIn("tools")
    /\ visited = <<"llm", "tools", "llm", "tools">>
    /\ Answered(2) # {}
    /\ Len(Last(messages).tool_calls) = 2
    /\ Last(invoked) = Last(messages).tool_calls[2].id

\* C18: every step leaves the log as a prefix of the new log.
C18_AppendOnly ==
    [][/\ Len(messages') >= Len(messages)
       /\ SubSeq(messages', 1, Len(messages)) = messages]_vars

\* C18 witness: a log grown by a completion, a batch of two observations and
\* a second completion.
C18_Witness ==
    /\ visited = <<"llm", "tools", "llm">>
    /\ Len(messages) = 5
    /\ messages[5].type = "ai"

\* The edges of the compiled graph, the router's two halves included.
GraphEdges ==
    { <<"START", "route_domain_llm">>,
      <<"route_domain_llm", "llm">>,
      <<"route_domain_llm", "out_of_domain">>,
      <<"out_of_domain", "END">>,
      <<"llm", "tools">>,
      <<"llm", "END">>,
      <<"tools", "llm">> }

\* The ways a raising collaborator takes the run out of the graph.
AbortEdges == { <<"START", "ERROR">>, <<"llm", "ERROR">>, <<"tools", "ERROR">> }

\* The edge a step takes.
EdgeTaken == <<pc, pc'>>

\* END is REJECTED when entered from the refusal node and DONE when entered
\* from the Decision Step.
TerminalByOrigin ==
    pc' = "END" => /\ REJECTED' <=> pc = "out_of_domain"
                   /\ DONE' <=> pc = "llm"

\* C20 (as claimed): every step of a run follows ROUTING -> REJECTED or
\* ROUTING -> DECIDING -> (ACTING -> DECIDING)* -> DONE: the router is never
\* re-entered, ACTING always returns to DECIDING, and nothing leaves DONE or
\* REJECTED.
C20_OnlyGraphPaths ==
    [][TerminalByOrigin /\ EdgeTaken \in GraphEdges]_vars

\* C20 (amended): every step of a run follows an edge of the graph or, when
\* the oracle or a tool raises, leaves ROUTING, DECIDING or ACTING for the
\* aborted state; the router is never re-entered, REJECTED is entered from
\* ROUTING only, ACTING from DECIDING only, and nothing leaves DONE, REJECTED
\* or the aborted state.
C20_GraphPathsOrAbort ==
    [][TerminalByOrigin /\ EdgeTaken \in (GraphEdges \cup AbortEdges)]_vars

\* C20 witness: a run that went twice round the loop and was then aborted in
\* ACTING.
C20_Witness ==
    /\ AbortedIn("tools")
    /\ visited = <<"llm", "tools", "llm", "tools">>
    /\ steps = 3

\* C21 (as claimed): a run enters ROUTING with a log of exactly two messages,
\* the system preamble followed by the user's message, and steps = 0.
C21_LogHoldsPreamble ==
    pc = "START" =>
        /\ Len(messages) = 2
        /\ messages[1] = SYSTEM_MESSAGE
        /\ messages[2].type = "human"
        /\ steps = 0

\* C21 (amended): a run enters ROUTING with a log of exactly one message, the
\* user's, with steps = 0 and nothing sent to the oracle yet. The preamble is
\* never a message of the log: each Decision Step puts it before the log in
\* what it sends to the oracle, so that after a Decision Step the oracle has
\* been called with the preamble followed by the log as it was.
C21_PreambleOutsideLog ==
    /\ pc = "START" =>
         /\ Len(messages) = 1
         /\ messages[1].type = "human"
         /\ messages[1].content \in UserQueries
         /\ steps = 0
         /\ prompt = <<>>
    /\ \A m \in 1..Len(messages) : messages[m] # SYSTEM_MESSAGE
    /\ (visited # <<>> /\ Last(visited) = "llm") =>
         /\ Len(prompt) >= 2
         /\ prompt[1] = SYSTEM_MESSAGE
         /\ Tail(prompt) = IF pc = "ERROR" THEN messages
                           ELSE SubSeq(messages, 1, Len(messages) - 1)

\* C21 witness: the first Decision Step has run on the preamble and the user's
\* message, and the log holds the user's message and the completion.
C21_Witness ==
    /\ visited = <<"llm">>
    /\ pc = "tools"
    /\ prompt = <<SYSTEM_MESSAGE, messages[1]>>
    /\ Len(messages) = 2
    /\ messages[1].type = "human"
    /\ steps = 1

-----------------------------------------------------------------------------
(* The router on any log: route_domain_llm as a function of state["messages"] *)

\* The longest log the router is given.
MaxLog == 3

\* Messages of every type a log can hold: two questions, an answer, an
\* observation and a refusal.
LogMessages ==
    { HumanMessage("What is BERT?"),
      HumanMessage("And tokenization?"),
      AIMessage("BERT is a bidirectional Transformer encoder.", <<>>),
      ToolMessage("result of nlp_concept_kb_lookup", "nlp_concept_kb_lookup", 1),
      OutOfDomainMessage }

\* The logs a caller of the compiled graph can pass as state["messages"].
Logs == UNION { [1..n -> LogMessages] : n \in 0..MaxLog }

\* The graph entered on any log.
RouterInit ==
    /\ messages \in Logs
    /\ steps = 0
    /\ pc = "START"
    /\ response = NoResponse
    /\ visited = <<>>
    /\ invoked = <<>>
    /\ prompt = <<>>
    /\ max_steps = MAX_STEPS
    /\ parked = NoRun
    /\ ScriptNotRun

\* The conditional edge from START, up to the node it selects.
RouterNext ==
    \/ route_domain_llm_invoke
    \/ route_domain_llm_return

RouterSpec == RouterInit /\ [][RouterNext]_vars

\* The positions of the user's messages in the log.
HumanPositions == { i \in 1..Len(messages) : messages[i].type = "human" }

\* The content of the user's message that no other user's message follows,
\* and "" for a log without one.
MostRecentUserContent ==
    IF HumanPositions = {} THEN ""
    ELSE messages[CHOOSE i \in HumanPositions : \A j \in HumanPositions : j <= i].content

\* route_domain_llm is running: the part of ROUTING before the refusal node.
Classifying == pc \in {"START", "route_domain_llm"}

\* C23: what the router sends to the oracle is its own preamble and one user
\* message holding the content of the most recent user message of the log,
\* whatever follows it in the log; the router stage changes neither the log
\* nor steps.
C23_RoutesOnLastUserMessage ==
    /\ []((pc # "START" /\ visited = <<>>) =>
            prompt = <<ROUTER_SYSTEM_MESSAGE, HumanMessage(MostRecentUserContent)>>)
    /\ [][Classifying => (messages' = messages /\ steps' = steps)]_vars

\* C23 witness: the router has classified the second of two questions, over
\* the answer that follows it in the log.
C23_Witness ==
    /\ pc = "llm"
    /\ Len(messages) = 3
    /\ messages[1] = HumanMessage("What is BERT?")
    /\ messages[2] = HumanMessage("And tokenization?")
    /\ messages[3].type = "ai"
    /\ prompt[2].content = "And tokenization?"

-----------------------------------------------------------------------------
(* Demo 1: the manual tool-calling loop of 1_langchain_tool_calling.py *)

\* system_message of demo 1
system_message == SystemMessage("You are a customer support assistant.")

test_user_queries ==
    << "What is the payment status and amount for transaction T1001?",
       "Is order T1002 paid, and how much was the payment?",
       "Check transaction T1005: what's its status and total amount?",
       "Can you check transaction T1004 and tell me whether it went through and what I was charged?",
       "Give me the status and payment amount for transaction T9999." >>

\* The keys of tool_names_to_functions.
tool_names_to_functions == {"retrieve_payment_status", "retrieve_amount"}

\* The names the oracle asks for in demo 1: a registered tool and an unknown one.
Demo1RequestedNames == {"retrieve_amount", "ghost"}

\* The tool-call lists of one completion of demo 1.
Demo1CallNames == UNION { [1..n -> Demo1RequestedNames] : n \in 0..MaxCalls }

\* tool_fn = tool_names_to_functions.get(tool_call['name']); tool_fn is not None
Demo1Known(tool_call) == tool_call.name \in tool_names_to_functions

\* tool_fn.invoke(tool_call) on a ToolCall: the ToolMessage of that call.
Demo1ToolMessage(tool_call) ==
    ToolMessage(ToolResultText(tool_call.name), tool_call.name, tool_call.id)

\* The messages the loop over ai_message.tool_calls has appended once it has
\* passed the first k calls: one per call with a known name; `continue` passes
\* over an unknown name.
demo1_loop(calls, k) ==
    LET known == SelectSeq(SubSeq(calls, 1, k), Demo1Known)
    IN  [i \in 1..Len(known) |-> Demo1ToolMessage(known[i])]

\* The ids of the calls among the first k handed to tool_fn.invoke.
Demo1InvokedIds(calls, k) ==
    LET known == SelectSeq(SubSeq(calls, 1, k), Demo1Known)
    IN  [i \in 1..Len(known) |-> known[i].id]

\* One pass of the body of `for query in test_user_queries`, entered with
\* messages = [system_message, HumanMessage(content=query)].
Demo1Init ==
    /\ query \in 1..Len(test_user_queries)
    /\ demo1_messages = <<system_message, HumanMessage(test_user_queries[query])>>
    /\ ai_message = NoResponse
    /\ final_message = NoResponse
    /\ line = "invoke"
    /\ called = <<>>
    /\ RunInit
    /\ max_steps = MAX_STEPS
    /\ parked = NoRun

\* ai_message = llm_with_tools.invoke(messages); messages.append(ai_message)
demo1_invoke ==
    /\ line = "invoke"
    /\ \/ \E names \in Demo1CallNames :
            LET completion == AIMessage(CompletionText(1), ToolCalls(names, 0))
            IN  /\ ai_message' = completion
                /\ demo1_messages' = Append(demo1_messages, completion)
                /\ line' = "if"
       \/ /\ line' = "ERROR"
          /\ UNCHANGED <<ai_message, demo1_messages>>
    /\ UNCHANGED <<query, final_message, called>>
    /\ UNCHANGED agent_vars

\* if ai_message.tool_calls: for tool_call in ai_message.tool_calls: ...
\* Either the loop passes every call, or tool_fn.invoke raises on the k-th and
\* the script ends there.
demo1_tools ==
    /\ line = "if"
    /\ ai_message.tool_calls # <<>>
    /\ LET calls == ai_message.tool_calls
       IN  \/ /\ demo1_messages' = demo1_messages \o demo1_loop(calls, Len(calls))
              /\ called' = called \o Demo1InvokedIds(calls, Len(calls))
              /\ line' = "final_invoke"
           \/ \E k \in 1..Len(calls) :
                /\ Demo1Known(calls[k])
                /\ demo1_messages' = demo1_messages \o demo1_loop(calls, k - 1)
                /\ called' = called \o Demo1InvokedIds(calls, k)
                /\ line' = "ERROR"
    /\ UNCHANGED <<query, ai_message, final_message>>
    /\ UNCHANGED agent_vars

\* final_message = llm_with_tools.invoke(messages)
demo1_final_invoke ==
    /\ line = "final_invoke"
    /\ \/ /\ \E names \in Demo1CallNames :
               final_message' = AIMessage(CompletionText(2), ToolCalls(names, MaxCalls))
          /\ line' = "print"
       \/ /\ line' = "ERROR"
          /\ UNCHANGED final_message
    /\ UNCHANGED <<query, demo1_messages, ai_message, called>>
    /\ UNCHANGED agent_vars

\* else: final_message = ai_message
demo1_direct ==
    /\ line = "if"
    /\ ai_message.tool_calls = <<>>
    /\ final_message' = ai_message
    /\ line' = "print"
    /\ UNCHANGED <<query, demo1_messages, ai_message, called>>
    /\ UNCHANGED agent_vars

\* print("Assistant:", final_message.content, "\n"): the end of the pass.
demo1_print ==
    /\ line = "print"
    /\ line' = "next query"
    /\ UNCHANGED <<query, demo1_messages, ai_message, final_message, called>>
    /\ UNCHANGED agent_vars

Demo1Next ==
    \/ demo1_invoke
    \/ demo1_tools
    \/ demo1_final_invoke
    \/ demo1_direct
    \/ demo1_print

Demo1Spec == Demo1Init /\ [][Demo1Next]_vars

\* The positions in demo 1's message list of the ToolMessages for call id.
Demo1AnswersTo(id) ==
    { m \in 1..Len(demo1_messages) :
        demo1_messages[m].type = "tool" /\ demo1_messages[m].tool_call_id = id }

\* C24 (as claimed): when the first assistant message has tool calls, each of
\* them has been executed and has a ToolMessage in the message list by the
\* time the oracle is called for the final answer.
C24_EveryCallAnswered ==
    (line \in {"final_invoke", "print"} /\ ai_message.tool_calls # <<>>) =>
        \A c \in 1..Len(ai_message.tool_calls) :
            LET id == ai_message.tool_calls[c].id
            IN  /\ \E k \in 1..Len(called) : called[k] = id
                /\ Demo1AnswersTo(id) # {}

-----------------------------------------------------------------------------
(* The step budget in numbers *)

\* The node that ran last returned (the run was not aborted in it).
Returned(n) == visited # <<>> /\ Last(visited) = n /\ pc # "ERROR"

\* C25: on the in_domain path steps is 2k - 1 after the k-th Decision Step and
\* 2k after the k-th run of the executor, so a run makes at most
\* ceil((max_steps + 1) / 2) Decision Steps and ceil((max_steps - 1) / 2)
\* executor runs: 4 and 3 for MAX_STEPS = 6.
C25_StepArithmetic ==
    /\ Returned("llm") => steps = 2 * Count("llm", visited) - 1
    /\ Returned("tools") => steps = 2 * Count("tools", visited)
    /\ Count("llm", visited) <= (max_steps + 2) \div 2
    /\ Count("tools", visited) <= max_steps \div 2
    /\ max_steps = MAX_STEPS =>
         /\ Count("llm", visited) <= 4
         /\ Count("tools", visited) <= 3

\* C25 witness: a run of the shipped budget that made 4 Decision Steps and 3
\* executor runs.
C25_Witness ==
    /\ DONE
    /\ max_steps = MAX_STEPS
    /\ Count("llm", visited) = 4
    /\ Count("tools", visited) = 3
    /\ steps = 2 * 4 - 1

-----------------------------------------------------------------------------
(* Side effects of an aborted batch *)

\* The position in the last message's tool_calls of the call that raised: the
\* call invoked last.
FailedCall ==
    CHOOSE k \in 1..Len(Last(messages).tool_calls) :
        Last(messages).tool_calls[k].id = Last(invoked)

\* C26: when the tool of the k-th request of a batch raises, the registered
\* tools among requests 1..k-1 have been invoked, in request order and once
\* each, no request of the batch has an observation in the log, and no request
\* k+1..N is ever invoked: the aborted state has no successor.
C26_PartialSideEffects ==
    /\ [](AbortedIn("tools") =>
            LET calls == Last(messages).tool_calls
                k == FailedCall
                batch == SelectSeq(invoked, LAMBDA id : id \in RequestIds(Len(messages)))
            IN  /\ calls[k].name \in TOOLS_BY_NAME
                /\ \A i \in 1..(k - 1) :
                     calls[i].name \in TOOLS_BY_NAME
                        => \E j \in 1..Len(invoked) : invoked[j] = calls[i].id
                /\ \A i \in (k + 1)..Len(calls) :
                     \A j \in 1..Len(invoked) : invoked[j] # calls[i].id
                /\ \A i \in 1..Len(calls) : ObservationsOf(calls[i].id) = {}
                /\ batch = InvokedIds(calls, k))
    /\ [][pc # "ERROR"]_vars

\* C26 witness: the second of two registered tools raised: the first was
\* invoked and the log holds no observation for it.
C26_Witness ==
    /\ AbortedIn("tools")
    /\ visited = <<"llm", "tools">>
    /\ Len(messages[2].tool_calls) = 2
    /\ messages[2].tool_calls[1].name \in TOOLS_BY_NAME
    /\ invoked = <<messages[2].tool_calls[1].id, messages[2].tool_calls[2].id>>
    /\ Len(messages) = 2

-----------------------------------------------------------------------------
(* The answer of a run *)

\* final_state["messages"][-1]: the message whose content is printed.
Answer == Last(messages)

\* C27: a run that ends normally ends in DONE or REJECTED and never on an
\* observation: in DONE the last message is the completion of the most recent
\* Decision Step, in REJECTED it is the refusal.
C27_AnswerNeverObservation ==
    /\ pc = "END" => (DONE \/ REJECTED) /\ Answer.type # "tool"
    /\ DONE =>
         /\ Answer.type = "ai"
         /\ Answer = response
         /\ Answer.content = CompletionText(Count("llm", visited))
    /\ REJECTED => Answer = OutOfDomainMessage

\* C27 witness: a run that ended in DONE on its second completion, the
\* message before it being an observation.
C27_Witness ==
    /\ DONE
    /\ visited = <<"llm", "tools", "llm">>
    /\ messages[Len(messages) - 1].type = "tool"
    /\ Answer.content = CompletionText(2)

-----------------------------------------------------------------------------
(* Two runs of the compiled graph, their node executions interleaved *)

\* The largest step budget the pair of runs is configured with.
PairBudget == 2

\* The ids of the two runs.
RunIds == {1, 2}

\* What a run owns, as a record: the values of run_vars.
OwnState(m, s, p, r, v, i, q) ==
    [messages |-> m, steps |-> s, pc |-> p, response |-> r,
     visited |-> v, invoked |-> i, prompt |-> q]

\* The state of the run that is executing.
Running == OwnState(messages, steps, pc, response, visited, invoked, prompt)

\* The state agent.invoke gives the second run: a state of its own.
SecondRunInit ==
    OwnState(<<HumanMessage("What is a Transformer?")>>, 0, "START",
             NoResponse, <<>>, <<>>, <<>>)

\* Both runs entered, the first executing: the compiled graph, the tool
\* registry and the budget are the module's, the state is each run's own.
PairInit ==
    /\ RunInit
    /\ max_steps \in 1..PairBudget
    /\ parked = [id |-> 2, own |-> SecondRunInit]
    /\ ScriptNotRun

\* The runtime goes from one run to the other with steps kept in one counter
\* of the module instead of each run's state.
switch_shared_steps ==
    /\ parked # NoRun
    /\ parked' = [id |-> 3 - parked.id, own |-> Running]
    /\ messages' = parked.own.messages
    /\ pc' = parked.own.pc
    /\ response' = parked.own.response
    /\ visited' = parked.own.visited
    /\ invoked' = parked.own.invoked
    /\ prompt' = parked.own.prompt
    /\ UNCHANGED <<steps, max_steps, script_vars>>

\* Between two node executions the runtime goes from one run to the other:
\* the state of the run that was executing is kept as it is, and the next
\* node runs on the other run's state.
switch ==
    /\ parked # NoRun
    /\ parked' = [id |-> 3 - parked.id, own |-> Running]
    /\ messages' = parked.own.messages
    /\ steps' = parked.own.steps
    /\ pc' = parked.own.pc
    /\ response' = parked.own.response
    /\ visited' = parked.own.visited
    /\ invoked' = parked.own.invoked
    /\ prompt' = parked.own.prompt
    /\ UNCHANGED <<max_steps, script_vars>>

PairNext ==
    \/ route_domain_llm_invoke
    \/ route_domain_llm_return
    \/ node_out_of_domain
    \/ node_llm
    \/ node_tools
    \/ switch

PairSpec == PairInit /\ [][PairNext]_vars

\* The state of run r, executing or not.
StateOf(r) == IF parked.id = r THEN parked.own ELSE Running

\* What a step of the pair may do: a node execution changes the state of the
\* run that is executing and of no other, going from one run to the other
\* changes the state of neither, and the shared configuration stays as it is.
PairFrame ==
    /\ max_steps' = max_steps
    /\ \E r \in RunIds : StateOf(r)' = StateOf(r)
    /\ parked'.id = parked.id => parked' = parked
    /\ parked'.id # parked.id => \A r \in RunIds : StateOf(r)' = StateOf(r)

\* What holds of the log, the steps and the end of a run that executes alone
\* (C12, C17, C25, C27), read on the run that is executing.
AsAlone ==
    /\ C12_NoDanglingRequest
    /\ C17_BatchAtomic
    /\ C25_StepArithmetic
    /\ C27_AnswerNeverObservation
    /\ \A m \in 1..Len(messages) : m > 1 => messages[m].type # "human"

\* C22: with the node executions of two runs interleaved in any order, every
\* step leaves the log, the steps and the position of the run that is not
\* executing as they were, and each run, whenever it executes, is in a state
\* of a run that executes alone: its log holds its own question only, with the
\* step count and the end a lone run has.
C22_RunsIndependent ==
    /\ [][PairFrame]_vars
    /\ []AsAlone

\* C22 witness: the second run went round the loop to DONE while the first,
\* which made its first Decision Step before it, waits to run its tools.
C22_Witness ==
    /\ parked.id = 1
    /\ parked.own.pc = "tools"
    /\ parked.own.steps = 1
    /\ Len(parked.own.messages) = 2
    /\ DONE
    /\ visited = <<"llm", "tools", "llm">>
    /\ steps = 3
    /\ messages[1].content = "What is a Transformer?"

=============================================================================
